---- MODULE Spec2Model ----
(***************************************************************************)
(* Inventory ledger of imran41/inventory_management (src/app.py): the      *)
(* products and transactions tables behind one cached psycopg2 connection, *)
(* the handlers that write them, and the callers that run them.            *)
(*                                                                         *)
(* Text values are sequences of one-character strings, so that strip(),    *)
(* lower(), isupper() and the f-string of the identifier allocator are     *)
(* computed character by character.                                        *)
(***************************************************************************)
EXTENDS Integers, Sequences, FiniteSets, TLC

(* ------------------------------ bounds -------------------------------- *)

\* Rows (products and transactions together) ever inserted: gen_random_uuid
\* is modelled as a fresh number, so this caps the uuids handed out.
MaxUuids == 5

\* Product rows in the table at one time.
MaxProducts == 3

\* Largest quantity a single call adds or sells.
MaxQty == 1

\* Handler calls one concurrent caller makes.
MaxCalls == 2

\* Rows of one CSV upload.
MaxRows == 3

\* Handler calls one caller makes while the other caller's call is under way
\* (the stock specifications).
MaxOverlap == 1

(* ------------------------------- text --------------------------------- *)

\* U+2102 (DOUBLE-STRUCK CAPITAL C) stands for the code points for which
\* str.isupper() is True and str.lower() is the identity.
UpperNoLower == "U+2102"

Whitespace == {" "}

\* c.isupper() of line 103
isupper(c) == c \in {"W", "V", UpperNoLower}

LowerChar(c) == IF c = "W" THEN "w" ELSE IF c = "V" THEN "v" ELSE c

\* str.lower()
lower(s) == [i \in 1..Len(s) |-> LowerChar(s[i])]

RECURSIVE lstrip(_)
lstrip(s) == IF s /= <<>> /\ Head(s) \in Whitespace THEN lstrip(Tail(s)) ELSE s

RECURSIVE rstrip(_)
rstrip(s) ==
    IF s /= <<>> /\ s[Len(s)] \in Whitespace
    THEN rstrip(SubSeq(s, 1, Len(s) - 1))
    ELSE s

\* str.strip()
strip(s) == rstrip(lstrip(s))

Digit(n) == CASE n = 0 -> "0" [] n = 1 -> "1" [] n = 2 -> "2" [] n = 3 -> "3"
              [] n = 4 -> "4" [] n = 5 -> "5" [] n = 6 -> "6" [] n = 7 -> "7"
              [] n = 8 -> "8" [] n = 9 -> "9"

\* str(counter) inside the f-string of line 389
RECURSIVE str(_)
str(n) == IF n < 10 THEN <<Digit(n)>> ELSE str(n \div 10) \o <<Digit(n % 10)>>

SuffixedPid_no_counter(original_pid, counter) == original_pid

\* f"{original_pid}({counter})", line 389
SuffixedPid(original_pid, counter) ==
    original_pid \o <<"(">> \o str(counter) \o <<")">>

(* ----------------------------- messages ------------------------------- *)

\* The (success, message) pairs the handlers return; the spec's error kinds
\* are the messages: ValidationError, ConflictError, NotFoundError,
\* InsufficientStockError, NoChangeError, StorageError.
MsgLowercaseOnly == "Error: Product name must be lowercase only."
MsgIdExists == "Error: Product ID already exists."
MsgNotFound == "Product not found."
MsgNotEnoughStock == "Error: Not enough stock to sell."
MsgNoChanges == "No changes made."
MsgStoreFailure == "store failure"
MsgAdded == "added successfully."
MsgStockUpdated == "Stock updated"
MsgUpdated == "Product updated successfully."
MsgDeleted == "Product deleted successfully."

(* ---------------------------- validation ------------------------------ *)

validate_product_name(name) ==
    IF \E i \in 1..Len(name) : isupper(name[i])
    THEN <<FALSE, MsgLowercaseOnly>>
    ELSE <<TRUE, "">>

validate_stock_availability_no_check(current_stock, quantity_to_sell) ==
    <<TRUE, current_stock - quantity_to_sell>>

validate_stock_availability(current_stock, quantity_to_sell) ==
    LET new_stock == current_stock - quantity_to_sell
    IN  IF new_stock < 0 THEN <<FALSE, MsgNotEnoughStock>> ELSE <<TRUE, new_stock>>

(* ------------------------- the two tables ----------------------------- *)

\* products: uuid -> [id, name, category, stock]          (lines 71-81)
\* transactions: uuid -> [date, product_uuid, product_id, product_name,
\*                        quantity_added, quantity_sold, remarks] (84-97)
\* The products table declares no UNIQUE constraint on id.

EmptyTable == [u \in {} |-> <<>>]

\* INSERT INTO products ... VALUES (pid, name, category, 0), lines 127-130
InsertProduct(prods, u, pid, name, category) ==
    [x \in DOMAIN prods \cup {u} |->
        IF x = u
        THEN [id |-> pid, name |-> name, category |-> category, stock |-> 0]
        ELSE prods[x]]

\* SELECT uuid, id, name, stock FROM products WHERE uuid=%s; <<>> is no row
get_product_by_uuid(prods, product_uuid) ==
    IF product_uuid \in DOMAIN prods
    THEN <<product_uuid, prods[product_uuid].id, prods[product_uuid].name,
           prods[product_uuid].stock>>
    ELSE <<>>

\* UPDATE products SET stock=%s WHERE uuid=%s
update_product_stock(prods, product_uuid, new_stock) ==
    [x \in DOMAIN prods |->
        IF x = product_uuid THEN [prods[x] EXCEPT !.stock = new_stock] ELSE prods[x]]

\* INSERT INTO transactions ...; the foreign key is checked by the caller
record_transaction(txs, t, date, product_uuid, product_id, product_name, added, sold, remarks) ==
    [x \in DOMAIN txs \cup {t} |->
        IF x = t
        THEN [date |-> date, product_uuid |-> product_uuid,
              product_id |-> product_id, product_name |-> product_name,
              quantity_added |-> added, quantity_sold |-> sold,
              remarks |-> remarks]
        ELSE txs[x]]

\* product_uuid REFERENCES products(uuid): the insert raises IntegrityError
\* when the referenced product row is absent
ForeignKeyOk(prods, product_uuid) == product_uuid \in DOMAIN prods

\* DELETE FROM products WHERE uuid=%s
DeleteProductRow(prods, product_uuid) ==
    [x \in DOMAIN prods \ {product_uuid} |-> prods[x]]

CascadeKeepAll(txs, product_uuid) == txs

\* ON DELETE CASCADE of transactions.product_uuid, line 90
CascadeDelete(txs, product_uuid) ==
    [x \in {y \in DOMAIN txs : txs[y].product_uuid /= product_uuid} |-> txs[x]]

SetTransactionsProductId_skip(txs, product_uuid, new_id) == txs

\* UPDATE transactions SET product_id=%s WHERE product_uuid=%s
SetTransactionsProductId(txs, product_uuid, new_id) ==
    [x \in DOMAIN txs |->
        IF txs[x].product_uuid = product_uuid
        THEN [txs[x] EXCEPT !.product_id = new_id] ELSE txs[x]]

SetTransactionsProductName_skip(txs, product_uuid, new_name) == txs

\* UPDATE transactions SET product_name=%s WHERE product_uuid=%s
SetTransactionsProductName(txs, product_uuid, new_name) ==
    [x \in DOMAIN txs |->
        IF txs[x].product_uuid = product_uuid
        THEN [txs[x] EXCEPT !.product_name = new_name] ELSE txs[x]]

\* SELECT 1 FROM products WHERE id=%s ... fetchone()
IdExists(prods, pid) == \E u \in DOMAIN prods : prods[u].id = pid

\* generate_unique_product_id: the probe loop of lines 386-392, from the
\* candidate pid and the counter it holds at the top of an iteration
RECURSIVE ProbeLoop(_, _, _, _)
ProbeLoop(prods, original_pid, pid, counter) ==
    IF IdExists(prods, pid)
    THEN ProbeLoop(prods, original_pid, SuffixedPid(original_pid, counter), counter + 1)
    ELSE pid

generate_unique_product_id_no_probe(prods, original_pid) == original_pid

generate_unique_product_id(prods, original_pid) ==
    ProbeLoop(prods, original_pid, original_pid, 1)

\* SUM(...) over the rows S of a column f, lines 295 and 312
RECURSIVE SumOf(_, _)
SumOf(f, S) ==
    IF S = {} THEN 0
    ELSE LET x == CHOOSE y \in S : TRUE IN f[x] + SumOf(f, S \ {x})

(* --------------------------- the handlers ----------------------------- *)

\* A handler takes the store db = [products, transactions, uuid_count] it
\* finds and returns the store it leaves (after its commit or rollback) with
\* the pair it returns.  fault = TRUE: a statement or the commit raises inside
\* the handler's try block, so the except branch rolls back.

Outcome(db, ok, msg) == [db |-> db, ret |-> <<ok, msg>>]

add_product(db, pid, name, category, fault) ==
    LET pid1 == strip(pid)
        name1 == strip(lower(name))
        v == validate_product_name(name1)
        u == db.uuid_count + 1
    IN  IF ~v[1] THEN Outcome(db, FALSE, v[2])
        ELSE IF fault THEN Outcome(db, FALSE, MsgStoreFailure)
        ELSE Outcome([db EXCEPT !.products = InsertProduct(@, u, pid1, name1, category), !.uuid_count = u], TRUE, MsgAdded)

StockAfter_unchecked(current_stock, added, sold) == <<TRUE, current_stock + added - sold>>

StockAfter_net(current_stock, added, sold) ==
    IF current_stock + added - sold < 0
    THEN <<FALSE, MsgNotEnoughStock>>
    ELSE <<TRUE, current_stock + added - sold>>

\* lines 258-264: new_stock, or the failed check
StockAfter(current_stock, added, sold) ==
    LET new_stock == current_stock + added - sold
    IN  IF sold > 0
        THEN validate_stock_availability(current_stock, sold)
        ELSE <<TRUE, new_stock>>

update_stock(db, product_uuid, date, added, sold, remarks, fault) ==
    LET product == get_product_by_uuid(db.products, product_uuid)
    IN  IF Len(product) = 0 THEN Outcome(db, FALSE, MsgNotFound)
        ELSE
        LET prod_uuid == product[1]
            pid == product[2]
            name == product[3]
            current_stock == product[4]
            s == StockAfter(current_stock, added, sold)
            t == db.uuid_count + 1
        IN  IF ~s[1] THEN Outcome(db, FALSE, s[2])
            ELSE IF fault THEN Outcome(db, FALSE, MsgStoreFailure)
            ELSE Outcome([db EXCEPT
                            !.products = update_product_stock(@, prod_uuid, s[2]),
                            !.transactions = record_transaction(@, t, date, prod_uuid, pid, name, added, sold, remarks),
                            !.uuid_count = t],
                         TRUE, MsgStockUpdated)

\* new_stock=None of line 181
NoneStock == -1

Supplied_always(text) == TRUE

\* "if new_id:" and the like: None and the empty string are both false
Supplied(text) == text /= <<>>

UpdateProductRow_keeps_stock(prods, product_uuid, new_id, new_name, new_category, new_stock) ==
    [x \in DOMAIN prods |->
        IF x = product_uuid
        THEN [id |-> IF Supplied(new_id) THEN strip(new_id) ELSE prods[x].id,
              name |-> IF Supplied(new_name) THEN strip(lower(new_name)) ELSE prods[x].name,
              category |-> IF Supplied(new_category) THEN strip(new_category) ELSE prods[x].category,
              stock |-> prods[x].stock]
        ELSE prods[x]]

\* UPDATE products SET <updates> WHERE uuid=%s, lines 212-214
UpdateProductRow(prods, product_uuid, new_id, new_name, new_category, new_stock) ==
    [x \in DOMAIN prods |->
        IF x = product_uuid
        THEN [id |-> IF Supplied(new_id) THEN strip(new_id) ELSE prods[x].id,
              name |-> IF Supplied(new_name) THEN strip(lower(new_name)) ELSE prods[x].name,
              category |-> IF Supplied(new_category) THEN strip(new_category) ELSE prods[x].category,
              stock |-> IF new_stock /= NoneStock THEN new_stock ELSE prods[x].stock]
        ELSE prods[x]]

update_product_details(db, product_uuid, new_id, new_name, new_category, new_stock, fault) ==
    LET tx1 == IF Supplied(new_id)
               THEN SetTransactionsProductId(db.transactions, product_uuid, strip(new_id))
               ELSE db.transactions
        tx2 == IF Supplied(new_name)
               THEN SetTransactionsProductName(tx1, product_uuid, strip(lower(new_name)))
               ELSE tx1
        updates == Supplied(new_id) \/ Supplied(new_name) \/ Supplied(new_category) \/ new_stock /= NoneStock
    IN  IF ~updates THEN Outcome(db, FALSE, MsgNoChanges)
        ELSE IF fault THEN Outcome(db, FALSE, MsgStoreFailure)
        ELSE Outcome([db EXCEPT
                        !.products = UpdateProductRow(@, product_uuid, new_id, new_name, new_category, new_stock),
                        !.transactions = tx2],
                     TRUE, MsgUpdated)

delete_product(db, product_uuid, fault) ==
    IF fault THEN Outcome(db, FALSE, MsgStoreFailure)
    ELSE Outcome([db EXCEPT
                    !.products = DeleteProductRow(@, product_uuid),
                    !.transactions = CascadeDelete(@, product_uuid)],
                 TRUE, MsgDeleted)

\* initialize_database as get_connection runs it when the application starts
\* on a store that already holds the two tables: drop_old_tables_if_exists
\* finds them and drops both (lines 66-68), the CREATE TABLE IF NOT EXISTS
\* statements create them again, empty, and line 42 commits.  fault = TRUE: a
\* statement raises, line 44 rolls the transaction back and the tables stay.
initialize_database(db, fault) ==
    IF fault THEN Outcome(db, FALSE, MsgStoreFailure)
    ELSE Outcome([db EXCEPT !.products = EmptyTable, !.transactions = EmptyTable], TRUE, "")

\* ORDER BY total DESC, lines 300 and 317 (the order of equal totals is the
\* store's choice)
RECURSIVE OrderByTotalDesc(_)
OrderByTotalDesc(rows) ==
    IF rows = {} THEN <<>>
    ELSE LET top == CHOOSE r \in rows : \A q \in rows : r.total >= q.total
         IN  <<top>> \o OrderByTotalDesc(rows \ {top})

\* products LEFT JOIN transactions ON p.uuid = t.product_uuid WHERE
\* t.quantity_added > 0: the joined rows, named by their transaction
JoinedAdded(db) ==
    {t \in DOMAIN db.transactions :
        /\ db.transactions[t].product_uuid \in DOMAIN db.products
        /\ db.transactions[t].quantity_added > 0}

\* GROUP BY p.id, p.name, p.category, p.stock: the group of a joined row
StockSummaryGroup(db, t) ==
    LET p == db.products[db.transactions[t].product_uuid]
    IN  <<p.id, p.name, p.category, p.stock>>

get_stock_summary(db) ==
    LET joined == JoinedAdded(db)
        added == [t \in DOMAIN db.transactions |-> db.transactions[t].quantity_added]
        rows == {[id |-> g[1], name |-> g[2], category |-> g[3],
                  total |-> SumOf(added, {t \in joined : StockSummaryGroup(db, t) = g}),
                  current_stock |-> g[4]] : g \in {StockSummaryGroup(db, t) : t \in joined}}
    IN  OrderByTotalDesc(rows)

\* ... WHERE t.quantity_sold > 0
JoinedSold(db) ==
    {t \in DOMAIN db.transactions :
        /\ db.transactions[t].product_uuid \in DOMAIN db.products
        /\ db.transactions[t].quantity_sold > 0}

\* GROUP BY p.id, p.name, p.category
SalesSummaryGroup(db, t) ==
    LET p == db.products[db.transactions[t].product_uuid]
    IN  <<p.id, p.name, p.category>>

get_sales_summary(db) ==
    LET joined == JoinedSold(db)
        sold == [t \in DOMAIN db.transactions |-> db.transactions[t].quantity_sold]
        rows == {[id |-> g[1], name |-> g[2], category |-> g[3],
                  total |-> SumOf(sold, {t \in joined : SalesSummaryGroup(db, t) = g})]
                 : g \in {SalesSummaryGroup(db, t) : t \in joined}}
    IN  OrderByTotalDesc(rows)

\* clean_csv_data, one row: str.strip on id and category, lower+strip on name
clean_csv_row(row) ==
    [id |-> strip(row.id), name |-> strip(lower(row.name)), category |-> strip(row.category)]

clean_csv_data(df) == [i \in 1..Len(df) |-> clean_csv_row(df[i])]

\* process_csv_products, rows i..Len(df_csv); acc = [added_count, pids,
\* outcomes]: the count it returns, the pid allocated per row (line 403) and
\* the (success, message) of each row's add_product (line 404).  faultRow is
\* the row whose INSERT raises, 0 for none.
RECURSIVE ProcessRows(_, _, _, _, _)
ProcessRows(db, df_csv, i, faultRow, acc) ==
    IF i > Len(df_csv) THEN [db |-> db, ret |-> acc]
    ELSE
    LET row == df_csv[i]
        pid == generate_unique_product_id(db.products, row.id)
        r == add_product(db, pid, row.name, row.category, i = faultRow)
        acc1 == [added_count |-> acc.added_count + (IF r.ret[1] THEN 1 ELSE 0),
                 pids |-> Append(acc.pids, pid),
                 outcomes |-> Append(acc.outcomes, r.ret)]
    IN  ProcessRows(r.db, df_csv, i + 1, faultRow, acc1)

process_csv_products(db, df_csv, faultRow) ==
    ProcessRows(db, df_csv, 1, faultRow, [added_count |-> 0, pids |-> <<>>, outcomes |-> <<>>])

(* ------------------------------ state --------------------------------- *)

VARIABLES
    products,               \* products table as the cached connection sees it
    transactions,           \* transactions table as the connection sees it
    committed_products,     \* products table as last committed
    committed_transactions, \* transactions table as last committed
    uuid_count,             \* uuids gen_random_uuid has handed out
    call,                   \* the handler call made last (sequential callers)
    result,                 \* what that call returned
    pc,                     \* concurrent callers: the statement each is about to run
    loc,                    \* concurrent callers: the handler's arguments and locals
    session                 \* app_1.py: st.session_state of the quiz session

vars == <<products, transactions, committed_products, committed_transactions, uuid_count, call, result, pc, loc, session>>

\* Script runs (Streamlit sessions) that share the connection of get_connection
Callers == {"s1", "s2"}

\* A caller's frame: the handler it runs (op), its arguments and locals, what
\* it returned (ret), how many calls it has made (calls), the statement at
\* which its last call raised (raised_at), and whether the two writes of its
\* update_stock call are in the open transaction (stock_write, record_write):
\* "pending" from the statement until the next commit or rollback on the
\* connection.
IdleFrame ==
    [op |-> "none", product_uuid |-> 0, added |-> 0, sold |-> 0, pid |-> <<>>, name |-> <<>>,
     current_stock |-> 0, new_stock |-> 0, original_pid |-> <<>>, counter |-> 0,
     df |-> <<>>, idx |-> 0, added_count |-> 0, ret |-> <<TRUE, "">>, calls |-> 0,
     stock_write |-> "none", record_write |-> "none",
     new_id |-> <<>>, new_name |-> <<>>, new_category |-> <<>>, raised_at |-> "none"]

\* app_1.py before "Start Exam": st.session_state holds no key ("started" not
\* in st.session_state, line 357)
NoSession == [started |-> FALSE]

\* get_connection / initialize_database on a fresh store: both tables empty;
\* no quiz session
Init ==
    /\ products = EmptyTable
    /\ transactions = EmptyTable
    /\ committed_products = EmptyTable
    /\ committed_transactions = EmptyTable
    /\ uuid_count = 0
    /\ call = [op |-> "none"]
    /\ result = <<TRUE, "">>
    /\ pc = [c \in Callers |-> "idle"]
    /\ loc = [c \in Callers |-> IdleFrame]
    /\ session = NoSession

Store == [products |-> products, transactions |-> transactions, uuid_count |-> uuid_count]

\* A handler run to its end by the only caller: it leaves the connection with
\* no open writes (its commit or its rollback), so both views agree.
Returns(r, c) ==
    /\ products' = r.db.products
    /\ transactions' = r.db.transactions
    /\ committed_products' = r.db.products
    /\ committed_transactions' = r.db.transactions
    /\ uuid_count' = r.db.uuid_count
    /\ call' = c
    /\ result' = r.ret
    /\ UNCHANGED <<pc, loc, session>>

(* ------------------------------ inputs -------------------------------- *)

\* A reference to a product that is not in the table (stale or never issued)
NoSuchUuid == MaxUuids + 1
\* The product references a caller may hold
ProductRefs == DOMAIN products \cup {NoSuchUuid}
Quantities == 0..MaxQty
Dates == {"2024-01-01"}
\* The quantities the stock forms pass: added=qty or sold=qty, qty >= 1
FormQuantities == {<<q, 0>> : q \in 1..MaxQty} \cup {<<0, q>> : q \in 1..MaxQty}
Categories == {<<"c">>}
PidA == <<"a">>
PidB == <<"b">>
PidA1 == <<"a", "(", "1", ")">>
PidA2 == <<"a", "(", "2", ")">>
Pids == {PidA, <<" ", "a">>, PidA1}
NameLower == <<"w">>
NameUpper == <<"W">>
NameUpperNoLower == <<UpperNoLower>>
Names == {NameLower, NameUpper, NameUpperNoLower}
NameMixed == <<"V">>
\* What the edit form passes: empty fields are "" and an empty stock is None
NewIds == {<<>>, PidB}
NewNames == {<<>>, NameMixed, NameUpperNoLower}

(* ------------------------- sequential callers ------------------------- *)

\* render_add_product_page, the form: add_product(cursor, conn, pid, name, category)
AddProduct(pid, name, category, fault) ==
    /\ uuid_count < MaxUuids
    /\ Cardinality(DOMAIN products) < MaxProducts
    /\ Returns(add_product(Store, pid, name, category, fault),
               [op |-> "add_product", pid |-> pid, name |-> name, category |-> category, fault |-> fault])

\* render_stock_operation_form: update_stock(cursor, conn, product_uuid, date, ...)
UpdateStock(product_uuid, date, added, sold, fault) ==
    /\ uuid_count < MaxUuids
    /\ Returns(update_stock(Store, product_uuid, date, added, sold, "", fault),
               [op |-> "update_stock", product_uuid |-> product_uuid, added |-> added, sold |-> sold,
                stock |-> IF product_uuid \in DOMAIN products THEN products[product_uuid].stock ELSE NoneStock,
                fault |-> fault])

\* render_manage_products_page, the edit form
UpdateProductDetails(product_uuid, new_id, new_name, new_category, new_stock, fault) ==
    /\ Returns(update_product_details(Store, product_uuid, new_id, new_name, new_category, new_stock, fault),
               [op |-> "update_product_details", product_uuid |-> product_uuid, new_id |-> new_id,
                new_name |-> new_name, new_category |-> new_category, new_stock |-> new_stock, fault |-> fault])

\* render_manage_products_page, the delete form
DeleteProduct(product_uuid, fault) ==
    /\ Returns(delete_product(Store, product_uuid, fault),
               [op |-> "delete_product", product_uuid |-> product_uuid,
                owned |-> Cardinality({t \in DOMAIN transactions : transactions[t].product_uuid = product_uuid}),
                fault |-> fault])

\* render_add_product_page, the upload: clean_csv_data, then process_csv_products
ImportCsv(df, faultRow) ==
    /\ uuid_count + Len(df) <= MaxUuids
    /\ Cardinality(DOMAIN products) + Len(df) <= MaxProducts
    /\ Returns(process_csv_products(Store, clean_csv_data(df), faultRow),
               [op |-> "process_csv_products", df |-> df, faultRow |-> faultRow])

\* The application process starts again: st.cache_resource holds nothing, so
\* get_connection connects and runs initialize_database
Restart(fault) ==
    /\ Returns(initialize_database(Store, fault), [op |-> "initialize_database", fault |-> fault])

\* render_stock_summary_page: the rows get_stock_summary returns
RenderStockSummaryPage ==
    /\ Returns([db |-> Store, ret |-> get_stock_summary(Store)], [op |-> "get_stock_summary"])

\* render_sales_summary_page: the rows get_sales_summary returns
RenderSalesSummaryPage ==
    /\ Returns([db |-> Store, ret |-> get_sales_summary(Store)], [op |-> "get_sales_summary"])

(* --------------------------- specifications --------------------------- *)

\* The ledger alone: products are created (each under an id no product holds)
\* and stock moves through update_stock.
NextLedger ==
    \/ \E pid \in {PidA, PidB} : ~IdExists(products, pid) /\ AddProduct(pid, NameLower, <<"c">>, FALSE)
    \/ \E u \in ProductRefs, d \in Dates, added \in Quantities, sold \in Quantities :
          UpdateStock(u, d, added, sold, FALSE)
    \/ \E u \in ProductRefs : DeleteProduct(u, FALSE)

SpecLedger == Init /\ [][NextLedger]_vars

\* The rows a CSV upload is made of
CsvRows ==
    { [id |-> PidA, name |-> NameLower, category |-> <<"c">>],
      [id |-> <<" ", "a">>, name |-> NameUpper, category |-> <<"c", " ">>],
      [id |-> PidB, name |-> NameUpperNoLower, category |-> <<"c">>] }

RECURSIVE SeqsUpTo(_, _)
SeqsUpTo(S, n) ==
    IF n = 0 THEN {<<>>}
    ELSE LET shorter == SeqsUpTo(S, n - 1)
         IN  shorter \cup {Append(q, x) : q \in {r \in shorter : Len(r) = n - 1}, x \in S}

CsvUploads == SeqsUpTo(CsvRows, MaxRows) \ {<<>>}

\* The catalog: create, rename, delete and CSV upload, with stock received.
Next ==
    \/ \E pid \in Pids, name \in Names : AddProduct(pid, name, <<"c">>, FALSE)
    \/ \E u \in DOMAIN products, d \in Dates : UpdateStock(u, d, 1, 0, FALSE)
    \/ \E u \in DOMAIN products, new_id \in {<<>>, PidA}, new_name \in {<<>>, NameUpper} :
          UpdateProductDetails(u, new_id, new_name, <<>>, NoneStock, FALSE)
    \/ \E u \in DOMAIN products : DeleteProduct(u, FALSE)
    \/ \E df \in CsvUploads : ImportCsv(df, 0)

Spec == Init /\ [][Next]_vars

\* The edit form: a few products are created, receive stock and are edited.
NextRename ==
    \/ \E pid \in {PidA, PidA1} : Cardinality(DOMAIN products) < 2 /\ AddProduct(pid, NameLower, <<"c">>, FALSE)
    \/ \E u \in DOMAIN products, d \in Dates : UpdateStock(u, d, 1, 0, FALSE)
    \/ \E u \in DOMAIN products, new_id \in NewIds, new_name \in NewNames :
          UpdateProductDetails(u, new_id, new_name, <<>>, NoneStock, FALSE)

SpecRename == Init /\ [][NextRename]_vars

\* The ledger with restarts of the application.
NextRestart ==
    \/ \E pid \in {PidA, PidB} : ~IdExists(products, pid) /\ AddProduct(pid, NameLower, <<"c">>, FALSE)
    \/ \E u \in DOMAIN products, d \in Dates, q \in FormQuantities : UpdateStock(u, d, q[1], q[2], FALSE)
    \/ \E u \in DOMAIN products : DeleteProduct(u, FALSE)
    \/ \E fault \in BOOLEAN : Restart(fault)

SpecRestart == Init /\ [][NextRestart]_vars

\* The ledger with its two summary pages.
NextSummary ==
    \/ \E pid \in {PidA, PidB} : AddProduct(pid, NameLower, <<"c">>, FALSE)
    \/ \E u \in DOMAIN products, d \in Dates, q \in FormQuantities : UpdateStock(u, d, q[1], q[2], FALSE)
    \/ RenderStockSummaryPage
    \/ RenderSalesSummaryPage

SpecSummary == Init /\ [][NextSummary]_vars

\* One-row uploads
SingleRowUploads == {df \in CsvUploads : Len(df) = 1}

\* Names: products are created, uploaded and renamed with names in any case,
\* and receive stock.
NextNames ==
    \/ \E name \in Names : Cardinality(DOMAIN products) < 2 /\ AddProduct(PidA, name, <<"c">>, FALSE)
    \/ \E df \in SingleRowUploads : Cardinality(DOMAIN products) < 2 /\ ImportCsv(df, 0)
    \/ \E u \in DOMAIN products, d \in Dates : UpdateStock(u, d, 1, 0, FALSE)
    \/ \E u \in DOMAIN products, new_name \in Names \cup {NameMixed} :
          UpdateProductDetails(u, <<>>, new_name, <<>>, NoneStock, FALSE)

SpecNames == Init /\ [][NextNames]_vars

(* ------------------------- concurrent callers ------------------------- *)

\* Every script run takes its cursor from the one connection cached by
\* st.cache_resource (lines 27-32, 839-840), so all callers write into the
\* same open transaction: a statement is visible to every caller at once, and
\* conn.commit() / conn.rollback() of any caller ends the transaction for all.

\* The transaction ends (commit or rollback): no write is pending any more
TransactionEnded(frames) ==
    [c \in Callers |-> [frames[c] EXCEPT !.stock_write = "none", !.record_write = "none"]]

\* What a caller keeps of a call that returned: the call and its result
Returned(frame, ret) ==
    [IdleFrame EXCEPT !.op = frame.op, !.product_uuid = frame.product_uuid, !.added = frame.added,
                      !.sold = frame.sold, !.current_stock = frame.current_stock, !.ret = ret,
                      !.calls = frame.calls, !.new_id = frame.new_id, !.new_name = frame.new_name]

\* conn.commit() by caller c, which then returns ret
Commit(c, ret) ==
    /\ committed_products' = products
    /\ committed_transactions' = transactions
    /\ loc' = TransactionEnded([loc EXCEPT ![c] = Returned(loc[c], ret)])
    /\ UNCHANGED <<products, transactions, uuid_count, call, result, session>>

Rollback_keeps_writes(c, ret) ==
    /\ loc' = TransactionEnded([loc EXCEPT ![c] = [Returned(loc[c], ret) EXCEPT !.raised_at = pc[c]]])
    /\ pc' = [pc EXCEPT ![c] = "idle"]
    /\ UNCHANGED <<products, transactions, committed_products, committed_transactions, uuid_count, call, result, session>>

\* conn.rollback() by caller c in an except branch, which then returns ret
Rollback(c, ret) ==
    /\ products' = committed_products
    /\ transactions' = committed_transactions
    /\ loc' = TransactionEnded([loc EXCEPT ![c] = [Returned(loc[c], ret) EXCEPT !.raised_at = pc[c]]])
    /\ pc' = [pc EXCEPT ![c] = "idle"]
    /\ UNCHANGED <<committed_products, committed_transactions, uuid_count, call, result, session>>

\* Caller c may start handler op: it is between calls
Begins(c) == pc[c] = "idle" /\ loc[c].calls < MaxCalls

\* The frame of a call that starts
NewFrame(c, op) == [IdleFrame EXCEPT !.op = op, !.calls = loc[c].calls + 1]

\* update_stock, lines 253-264: the SELECT and the check on what it read
UsSelect(c, product_uuid, added, sold) ==
    /\ Begins(c)
    /\ LET product == get_product_by_uuid(products, product_uuid)
           frame == [NewFrame(c, "update_stock") EXCEPT !.product_uuid = product_uuid,
                                                       !.added = added, !.sold = sold]
       IN  IF Len(product) = 0
           THEN /\ loc' = [loc EXCEPT ![c] = Returned(frame, <<FALSE, MsgNotFound>>)]
                /\ pc' = pc
           ELSE LET s == StockAfter(product[4], added, sold)
                    read == [frame EXCEPT !.pid = product[2], !.name = product[3],
                                          !.current_stock = product[4]]
                IN  IF ~s[1]
                    THEN /\ loc' = [loc EXCEPT ![c] = Returned(read, <<FALSE, s[2]>>)]
                         /\ pc' = pc
                    ELSE /\ loc' = [loc EXCEPT ![c] = [read EXCEPT !.new_stock = s[2]]]
                         /\ pc' = [pc EXCEPT ![c] = "us_update"]
    /\ UNCHANGED <<products, transactions, committed_products, committed_transactions, uuid_count, call, result, session>>

\* line 266: update_product_stock
UsUpdate(c) ==
    /\ pc[c] = "us_update"
    /\ products' = update_product_stock(products, loc[c].product_uuid, loc[c].new_stock)
    /\ loc' = [loc EXCEPT ![c].stock_write =
                  IF loc[c].product_uuid \in DOMAIN products THEN "pending" ELSE "none"]
    /\ pc' = [pc EXCEPT ![c] = "us_insert"]
    /\ UNCHANGED <<transactions, committed_products, committed_transactions, uuid_count, call, result, session>>

\* line 267: record_transaction; the INSERT raises IntegrityError when the
\* product row is gone, and the except branch of lines 271-273 rolls back
UsInsert(c) ==
    /\ pc[c] = "us_insert"
    /\ IF ForeignKeyOk(products, loc[c].product_uuid)
       THEN /\ transactions' = record_transaction(transactions, uuid_count + 1, "2024-01-01",
                                  loc[c].product_uuid, loc[c].pid, loc[c].name,
                                  loc[c].added, loc[c].sold, "")
            /\ uuid_count' = uuid_count + 1
            /\ loc' = [loc EXCEPT ![c].record_write = "pending"]
            /\ pc' = [pc EXCEPT ![c] = "us_commit"]
            /\ UNCHANGED <<products, committed_products, committed_transactions, call, result, session>>
       ELSE Rollback(c, <<FALSE, "IntegrityError">>)

\* lines 268-270: conn.commit() and the success return
UsCommit(c) ==
    /\ pc[c] = "us_commit"
    /\ Commit(c, <<TRUE, MsgStockUpdated>>)
    /\ pc' = [pc EXCEPT ![c] = "idle"]

\* add_product, lines 119-130: normalise, validate, INSERT
ApInsert(c, pid, name, category) ==
    /\ Begins(c)
    /\ LET pid1 == strip(pid)
           name1 == strip(lower(name))
           v == validate_product_name(name1)
           frame == [NewFrame(c, "add_product") EXCEPT !.pid = pid1, !.name = name1]
       IN  IF ~v[1]
           THEN /\ loc' = [loc EXCEPT ![c] = Returned(frame, <<FALSE, v[2]>>)]
                /\ pc' = pc
                /\ UNCHANGED <<products, uuid_count>>
           ELSE /\ products' = InsertProduct(products, uuid_count + 1, pid1, name1, category)
                /\ uuid_count' = uuid_count + 1
                /\ loc' = [loc EXCEPT ![c] = frame]
                /\ pc' = [pc EXCEPT ![c] = "ap_commit"]
    /\ UNCHANGED <<transactions, committed_products, committed_transactions, call, result, session>>

\* lines 131-132: conn.commit() and the success return
ApCommit(c) ==
    /\ pc[c] = "ap_commit"
    /\ Commit(c, <<TRUE, MsgAdded>>)
    /\ pc' = [pc EXCEPT ![c] = "idle"]

\* delete_product, line 233: the DELETE with its cascade
DpDelete(c, product_uuid) ==
    /\ Begins(c)
    /\ products' = DeleteProductRow(products, product_uuid)
    /\ transactions' = CascadeDelete(transactions, product_uuid)
    /\ loc' = [loc EXCEPT ![c] = [NewFrame(c, "delete_product") EXCEPT !.product_uuid = product_uuid]]
    /\ pc' = [pc EXCEPT ![c] = "dp_commit"]
    /\ UNCHANGED <<committed_products, committed_transactions, uuid_count, call, result, session>>

\* lines 234-235
DpCommit(c) ==
    /\ pc[c] = "dp_commit"
    /\ Commit(c, <<TRUE, MsgDeleted>>)
    /\ pc' = [pc EXCEPT ![c] = "idle"]

\* process_csv_products, lines 398-403: the next row (or the first) is read
\* and generate_unique_product_id starts on its id (lines 384-385)
RowFrame(frame, i) ==
    [frame EXCEPT !.idx = i, !.original_pid = frame.df[i].id, !.pid = frame.df[i].id,
                  !.name = frame.df[i].name, !.counter = 1]

\* render_add_product_page: clean_csv_data, then process_csv_products starts
ImStart(c, df) ==
    /\ Begins(c)
    /\ loc' = [loc EXCEPT ![c] = RowFrame([NewFrame(c, "process_csv_products") EXCEPT !.df = clean_csv_data(df)], 1)]
    /\ pc' = [pc EXCEPT ![c] = "gp_probe"]
    /\ UNCHANGED <<products, transactions, committed_products, committed_transactions, uuid_count, call, result, session>>

\* generate_unique_product_id, lines 387-392: one existence probe
GpProbe(c) ==
    /\ pc[c] = "gp_probe"
    /\ IF IdExists(products, loc[c].pid)
       THEN /\ loc' = [loc EXCEPT ![c].pid = SuffixedPid(loc[c].original_pid, loc[c].counter),
                                  ![c].counter = loc[c].counter + 1]
            /\ pc' = pc
       ELSE /\ loc' = loc
            /\ pc' = [pc EXCEPT ![c] = "im_insert"]
    /\ UNCHANGED <<products, transactions, committed_products, committed_transactions, uuid_count, call, result, session>>

\* lines 406-411: the row is done; the loop goes on or the count is returned
RowDone(c, frame, ok) ==
    LET counted == [frame EXCEPT !.added_count = frame.added_count + (IF ok THEN 1 ELSE 0)]
    IN  IF frame.idx < Len(frame.df)
        THEN /\ loc' = [loc EXCEPT ![c] = RowFrame(counted, frame.idx + 1)]
             /\ pc' = [pc EXCEPT ![c] = "gp_probe"]
        ELSE /\ loc' = [loc EXCEPT ![c] = [Returned(counted, <<TRUE, "products added">>) EXCEPT
                                              !.added_count = counted.added_count]]
             /\ pc' = [pc EXCEPT ![c] = "idle"]

\* line 404, add_product on the allocated pid: normalise, validate, INSERT
ImInsert(c) ==
    /\ pc[c] = "im_insert"
    /\ LET pid1 == strip(loc[c].pid)
           name1 == strip(lower(loc[c].name))
           v == validate_product_name(name1)
       IN  IF ~v[1]
           THEN /\ RowDone(c, loc[c], FALSE)
                /\ UNCHANGED <<products, uuid_count>>
           ELSE /\ products' = InsertProduct(products, uuid_count + 1, pid1, name1, loc[c].df[loc[c].idx].category)
                /\ uuid_count' = uuid_count + 1
                /\ loc' = loc
                /\ pc' = [pc EXCEPT ![c] = "im_commit"]
    /\ UNCHANGED <<transactions, committed_products, committed_transactions, call, result, session>>

\* add_product's conn.commit() inside the loop
ImCommit(c) ==
    /\ pc[c] = "im_commit"
    /\ committed_products' = products
    /\ committed_transactions' = transactions
    /\ RowDone(c, loc[c], TRUE)
    /\ UNCHANGED <<products, transactions, uuid_count, call, result, session>>

\* "if updates:" of line 211, from the arguments the frame holds
HasUpdates(frame) ==
    \/ Supplied(frame.new_id) \/ Supplied(frame.new_name)
    \/ Supplied(frame.new_category) \/ frame.new_stock /= NoneStock

\* update_product_details is called: lines 183-185
UdBegin(c, product_uuid, new_id, new_name, new_category, new_stock) ==
    /\ Begins(c)
    /\ loc' = [loc EXCEPT ![c] = [NewFrame(c, "update_product_details") EXCEPT
                                     !.product_uuid = product_uuid, !.new_id = new_id, !.new_name = new_name,
                                     !.new_category = new_category, !.new_stock = new_stock]]
    /\ pc' = [pc EXCEPT ![c] = "ud_set_id"]
    /\ UNCHANGED <<products, transactions, committed_products, committed_transactions, uuid_count, call, result, session>>

\* lines 187-193: if new_id, UPDATE transactions SET product_id
UdSetId(c) ==
    /\ pc[c] = "ud_set_id"
    /\ transactions' = IF Supplied(loc[c].new_id)
                       THEN SetTransactionsProductId(transactions, loc[c].product_uuid, strip(loc[c].new_id))
                       ELSE transactions
    /\ pc' = [pc EXCEPT ![c] = "ud_set_name"]
    /\ UNCHANGED <<products, committed_products, committed_transactions, uuid_count, call, result, loc, session>>

\* lines 195-201: if new_name, UPDATE transactions SET product_name
UdSetName(c) ==
    /\ pc[c] = "ud_set_name"
    /\ transactions' = IF Supplied(loc[c].new_name)
                       THEN SetTransactionsProductName(transactions, loc[c].product_uuid, strip(lower(loc[c].new_name)))
                       ELSE transactions
    /\ pc' = [pc EXCEPT ![c] = "ud_update"]
    /\ UNCHANGED <<products, committed_products, committed_transactions, uuid_count, call, result, loc, session>>

\* lines 203-218: if updates, UPDATE products SET ...; otherwise the
\* no-changes return, with neither commit nor rollback
UdUpdate(c) ==
    /\ pc[c] = "ud_update"
    /\ IF HasUpdates(loc[c])
       THEN /\ products' = UpdateProductRow(products, loc[c].product_uuid, loc[c].new_id,
                                            loc[c].new_name, loc[c].new_category, loc[c].new_stock)
            /\ pc' = [pc EXCEPT ![c] = "ud_commit"]
            /\ loc' = loc
       ELSE /\ products' = products
            /\ pc' = [pc EXCEPT ![c] = "idle"]
            /\ loc' = [loc EXCEPT ![c] = Returned(loc[c], <<FALSE, MsgNoChanges>>)]
    /\ UNCHANGED <<transactions, committed_products, committed_transactions, uuid_count, call, result, session>>

\* lines 215-216
UdCommit(c) ==
    /\ pc[c] = "ud_commit"
    /\ Commit(c, <<TRUE, MsgUpdated>>)
    /\ pc' = [pc EXCEPT ![c] = "idle"]

\* A statement or the commit raises (the store fails): the except branch of
\* the handler rolls back and returns the failure
StoreFailure(c) ==
    /\ pc[c] \in {"us_update", "us_insert", "us_commit", "ap_commit", "dp_commit",
                 "ud_set_id", "ud_set_name", "ud_update", "ud_commit"}
    /\ pc[c] = "ud_set_id" => Supplied(loc[c].new_id)
    /\ pc[c] = "ud_set_name" => Supplied(loc[c].new_name)
    /\ pc[c] = "ud_update" => HasUpdates(loc[c])
    /\ Rollback(c, <<FALSE, MsgStoreFailure>>)

\* Callers running the handlers statement by statement on the shared
\* connection, with store failures.
NextConc ==
    \/ \E c \in Callers, u \in DOMAIN products, q \in FormQuantities : UsSelect(c, u, q[1], q[2])
    \/ \E c \in Callers : UsUpdate(c)
    \/ \E c \in Callers : UsInsert(c)
    \/ \E c \in Callers : UsCommit(c)
    \/ \E c \in Callers : ApInsert(c, PidA, NameLower, <<"c">>)
    \/ \E c \in Callers : ApCommit(c)
    \/ \E c \in Callers, u \in DOMAIN products : DpDelete(c, u)
    \/ \E c \in Callers : DpCommit(c)
    \/ \E c \in Callers : StoreFailure(c)

SpecConc == Init /\ [][NextConc]_vars

\* Callers that create products and move stock, with no store failure.
NextSell ==
    \/ \E c \in Callers, u \in DOMAIN products, q \in FormQuantities : UsSelect(c, u, q[1], q[2])
    \/ \E c \in Callers : UsUpdate(c)
    \/ \E c \in Callers : UsInsert(c)
    \/ \E c \in Callers : UsCommit(c)
    \/ \E c \in Callers : ApInsert(c, PidA, NameLower, <<"c">>)
    \/ \E c \in Callers : ApCommit(c)

SpecSell == Init /\ [][NextSell]_vars

\* The stock values the edit form passes ("Adjust Stock", min_value=0)
StockOverrides == {0, 1}

\* The (added, sold) pairs the callers pass: a receipt, a sale, and both at once
StockMoves == {<<1, 0>>, <<0, 1>>, <<1, 1>>}

\* No caller is inside a handler
Quiet == \A c \in Callers : pc[c] = "idle"

\* A product is created and receives stock; then callers move its stock (added and sold may both
\* be non-zero) and set it through the edit form, on the shared connection,
\* with store failures.
NextStock ==
    \/ products = EmptyTable /\ Quiet /\ AddProduct(PidA, NameLower, <<"c">>, FALSE)
    \/ \E u \in DOMAIN products, d \in Dates :
          transactions = EmptyTable /\ Quiet /\ UpdateStock(u, d, 1, 0, FALSE)
    \/ \E c \in Callers, u \in DOMAIN products, q \in StockMoves :
          loc[c].calls < MaxOverlap /\ UsSelect(c, u, q[1], q[2])
    \/ \E c \in Callers : UsUpdate(c)
    \/ \E c \in Callers : UsInsert(c)
    \/ \E c \in Callers : UsCommit(c)
    \/ \E c \in Callers, u \in DOMAIN products, new_stock \in StockOverrides :
          loc[c].calls < MaxOverlap /\ UdBegin(c, u, <<>>, <<>>, <<>>, new_stock)
    \/ \E c \in Callers : UdSetId(c)
    \/ \E c \in Callers : UdSetName(c)
    \/ \E c \in Callers : UdUpdate(c)
    \/ \E c \in Callers : UdCommit(c)
    \/ \E c \in Callers : StoreFailure(c)

SpecStock == Init /\ [][NextStock]_vars

\* The caller that edits products
Editor == "s1"

\* Products are created and receive stock; then one caller edits them,
\* statement by statement, with store failures.
NextEdit ==
    \/ \E pid \in {PidA, PidA1} :
          Quiet /\ Cardinality(DOMAIN products) < 2 /\ AddProduct(pid, NameLower, <<"c">>, FALSE)
    \/ \E u \in DOMAIN products, d \in Dates : Quiet /\ UpdateStock(u, d, 1, 0, FALSE)
    \/ \E u \in DOMAIN products, new_id \in NewIds, new_name \in NewNames :
          UdBegin(Editor, u, new_id, new_name, <<>>, NoneStock)
    \/ UdSetId(Editor)
    \/ UdSetName(Editor)
    \/ UdUpdate(Editor)
    \/ UdCommit(Editor)
    \/ StoreFailure(Editor)

SpecEdit == Init /\ [][NextEdit]_vars

\* The uploads concurrent callers confirm
ConcurrentUploads == {df \in CsvUploads : Len(df) <= 2}

\* Callers that upload CSV files at the same time.
NextImport ==
    \/ \E c \in Callers, df \in ConcurrentUploads : ImStart(c, df)
    \/ \E c \in Callers : GpProbe(c)
    \/ \E c \in Callers : ImInsert(c)
    \/ \E c \in Callers : ImCommit(c)

SpecImport == Init /\ [][NextImport]_vars

(* ------------------------------ claims -------------------------------- *)

MovementsOf(txs, u) == {t \in DOMAIN txs : txs[t].product_uuid = u}

NetOfMovements(txs, u) ==
    SumOf([t \in DOMAIN txs |-> txs[t].quantity_added - txs[t].quantity_sold], MovementsOf(txs, u))

\* C1: starting from products created with stock 0, after any sequence of
\* successful update_stock calls (added and sold non-negative, possibly both
\* non-zero), every product's stock equals the sum of added minus the sum of
\* sold over the movements recorded for it.
C1_StockEqualsNetOfMovements ==
    \A u \in DOMAIN products : products[u].stock = NetOfMovements(transactions, u)

\* C4: an update_stock call with sold greater than the product's stock returns
\* the not-enough-stock failure, records no movement and leaves every product
\* and every movement as it was.
C4_OversellRejectedUnchanged ==
    [][(/\ call'.op = "update_stock"
        /\ call'.product_uuid \in DOMAIN products
        /\ call'.sold > products[call'.product_uuid].stock)
       => (/\ result' = <<FALSE, MsgNotEnoughStock>>
           /\ products' = products
           /\ transactions' = transactions
           /\ committed_products' = committed_products
           /\ committed_transactions' = committed_transactions)]_vars

\* C4 witness: an oversell was rejected on a product that owns movements,
\* while another product exists.
C4_Witness ==
    /\ call.op = "update_stock"
    /\ call.product_uuid \in DOMAIN products
    /\ call.sold > products[call.product_uuid].stock
    /\ result = <<FALSE, MsgNotEnoughStock>>
    /\ MovementsOf(transactions, call.product_uuid) /= {}
    /\ Cardinality(DOMAIN products) >= 2

\* C10: after a successful delete_product the product is gone, no movement
\* references it, and every other product and every movement of another
\* product is unchanged.
C10_DeleteCascades ==
    [][(call'.op = "delete_product" /\ result'[1])
       => LET u == call'.product_uuid
          IN  /\ u \notin DOMAIN products'
              /\ MovementsOf(transactions', u) = {}
              /\ DOMAIN products' = DOMAIN products \ {u}
              /\ \A x \in DOMAIN products' : products'[x] = products[x]
              /\ DOMAIN transactions' = DOMAIN transactions \ MovementsOf(transactions, u)
              /\ \A t \in DOMAIN transactions' : transactions'[t] = transactions[t]
              /\ committed_products' = products'
              /\ committed_transactions' = transactions']_vars

\* C10 witness: a product that owned 4 movements has just been deleted.
C10_Witness ==
    /\ call.op = "delete_product"
    /\ result[1]
    /\ call.owned = 4
    /\ call.product_uuid \notin DOMAIN products
    /\ transactions = EmptyTable

HasUpper(name) == \E i \in 1..Len(name) : isupper(name[i])

\* C5: add_product with a name that contains an uppercase character returns
\* the lowercase-only failure and inserts nothing; with a name that has none
\* and an identifier no product holds it succeeds and inserts the product.
C5_UppercaseNameRejected ==
    [][(call'.op = "add_product" /\ ~call'.fault)
       => IF HasUpper(call'.name)
          THEN result' = <<FALSE, MsgLowercaseOnly>> /\ products' = products
          ELSE ~IdExists(products, strip(call'.pid))
               => /\ result'[1]
                  /\ \E u \in DOMAIN products' \ DOMAIN products :
                        /\ products'[u].id = strip(call'.pid)
                        /\ products'[u].name = strip(call'.name)
                        /\ products'[u].stock = 0]_vars

\* C6: no two distinct products have the same external identifier.
C6_UniqueExternalIds ==
    \A u \in DOMAIN products, x \in DOMAIN products :
        u /= x => products[u].id /= products[x].id

\* C7: a create whose identifier an existing product holds, and an update
\* whose new identifier a different product holds, return the identifier
\* conflict failure and leave products and movements as they were.
C7_ConflictRejectedUnchanged ==
    [][(\/ /\ call'.op = "add_product"
           /\ ~HasUpper(call'.name)
           /\ IdExists(products, strip(call'.pid))
        \/ /\ call'.op = "update_product_details"
           /\ Supplied(call'.new_id)
           /\ \E x \in DOMAIN products :
                 x /= call'.product_uuid /\ products[x].id = strip(call'.new_id))
       => (/\ result' = <<FALSE, MsgIdExists>>
           /\ products' = products
           /\ transactions' = transactions)]_vars

\* p, p(1), p(2), ...: the k-th identifier the allocator tries for p
Candidate(p, k) == IF k = 0 THEN p ELSE SuffixedPid(p, k)

\* C8: in a CSV upload, an identifier no product holds is allocated unchanged;
\* when every row proposes the same identifier p, every row is created, and
\* the catalog held none of p, p(1), p(2), ..., the rows are allocated
\* p, p(1), p(2), ... in that order.
C8_AllocatorSequence ==
    [][(call'.op = "process_csv_products")
       => LET df == clean_csv_data(call'.df)
              p == df[1].id
          IN  /\ ~IdExists(products, p) => result'.pids[1] = p
              /\ (/\ \A i \in 1..Len(df) : df[i].id = p
                  /\ \A i \in 1..Len(df) : result'.outcomes[i][1]
                  /\ \A k \in 0..MaxUuids : ~IdExists(products, Candidate(p, k)))
                 => /\ Len(result'.pids) = Len(df)
                    /\ \A i \in 1..Len(df) : result'.pids[i] = Candidate(p, i - 1)]_vars

\* C8 witness: three rows proposing "a" were allocated a, a(1), a(2) and created.
C8_Witness ==
    /\ call.op = "process_csv_products"
    /\ Len(call.df) = 3
    /\ \A i \in 1..3 : strip(call.df[i].id) = PidA
    /\ result.added_count = 3
    /\ result.pids = <<PidA, PidA1, PidA2>>
    /\ \A i \in 1..3 : \E u \in DOMAIN products : products[u].id = result.pids[i]

\* C2: two concurrent update_stock(sold=1) calls against a product whose
\* stock both found to be 1: exactly one succeeds and the other returns the
\* not-enough-stock failure; never do both succeed.
C2_ExactlyOneSellSucceeds ==
    \A c1 \in Callers, c2 \in Callers :
        (/\ c1 /= c2
         /\ pc[c1] = "idle" /\ pc[c2] = "idle"
         /\ loc[c1].op = "update_stock" /\ loc[c2].op = "update_stock"
         /\ loc[c1].product_uuid = loc[c2].product_uuid
         /\ loc[c1].added = 0 /\ loc[c1].sold = 1 /\ loc[c1].current_stock = 1
         /\ loc[c2].added = 0 /\ loc[c2].sold = 1 /\ loc[c2].current_stock = 1)
        => (\/ loc[c1].ret[1] /\ loc[c2].ret = <<FALSE, MsgNotEnoughStock>>
            \/ loc[c2].ret[1] /\ loc[c1].ret = <<FALSE, MsgNotEnoughStock>>)

\* C3: whenever the store commits, every update_stock call has both of its
\* writes (the stock update and the movement record) in what is committed, or
\* neither of them.
C3_ApplyAllOrNothing ==
    [][(committed_products' /= committed_products \/ committed_transactions' /= committed_transactions)
       => \A c \in Callers : loc[c].stock_write = loc[c].record_write]_vars

\* C9: callers that allocate an identifier and create a product with it never
\* leave two products with the same identifier in the committed store.
C9_NoSharedAllocatedId ==
    \A u \in DOMAIN committed_products, x \in DOMAIN committed_products :
        u /= x => committed_products[u].id /= committed_products[x].id

\* C11: in a CSV upload, a row whose name contains an uppercase character
\* gets the lowercase-only failure and creates no product, while every other
\* row of the upload succeeds and creates a product under its allocated id.
C11_UppercaseRowFailsAlone ==
    [][(call'.op = "process_csv_products")
       => /\ Len(result'.outcomes) = Len(call'.df)
          /\ \A i \in 1..Len(call'.df) :
                IF HasUpper(call'.df[i].name)
                THEN result'.outcomes[i] = <<FALSE, MsgLowercaseOnly>>
                ELSE result'.outcomes[i][1]
          /\ Cardinality(DOMAIN products' \ DOMAIN products)
                = Cardinality({i \in 1..Len(call'.df) : ~HasUpper(call'.df[i].name)})]_vars

\* C12: update_product_details called with no new id, no new name, no new
\* category and no stock returns the no-changes result and leaves every
\* product and every movement as it was.
C12_NoChangeReported ==
    [][(/\ call'.op = "update_product_details"
        /\ call'.new_id = <<>> /\ call'.new_name = <<>> /\ call'.new_category = <<>>
        /\ call'.new_stock = NoneStock)
       => (/\ result' = <<FALSE, MsgNoChanges>>
           /\ products' = products
           /\ transactions' = transactions
           /\ committed_products' = committed_products
           /\ committed_transactions' = committed_transactions)]_vars

\* C12 witness: an update that supplied nothing was reported as no change, on
\* a product that owns a movement, with another product in the catalog.
C12_Witness ==
    /\ call.op = "update_product_details"
    /\ call.new_id = <<>> /\ call.new_name = <<>> /\ call.new_category = <<>>
    /\ call.new_stock = NoneStock
    /\ result = <<FALSE, MsgNoChanges>>
    /\ MovementsOf(transactions, call.product_uuid) /= {}
    /\ Cardinality(DOMAIN products) >= 2

\* C13: after a successful update_product_details that supplies a new id
\* and/or a new name, every movement of that product carries the product's
\* new id and/or new name as its snapshot, and the movements of other products
\* are unchanged.
C13_SnapshotsRewritten ==
    [][(/\ call'.op = "update_product_details"
        /\ result'[1]
        /\ call'.product_uuid \in DOMAIN products
        /\ (call'.new_id /= <<>> \/ call'.new_name /= <<>>))
       => LET u == call'.product_uuid
          IN  /\ DOMAIN transactions' = DOMAIN transactions
              /\ call'.new_id /= <<>> => products'[u].id = strip(call'.new_id)
              /\ call'.new_name /= <<>> => products'[u].name = strip(lower(call'.new_name))
              /\ \A t \in DOMAIN transactions' :
                    IF transactions[t].product_uuid = u
                    THEN /\ call'.new_id /= <<>> => transactions'[t].product_id = products'[u].id
                         /\ call'.new_name /= <<>> => transactions'[t].product_name = products'[u].name
                         /\ transactions'[t].product_uuid = u
                    ELSE transactions'[t] = transactions[t]]_vars

\* C13 witness: a product with two movements was given a new id and a new
\* name, both of its movements carry them, and a movement of another product
\* still carries that product's own id and name.
C13_Witness ==
    /\ call.op = "update_product_details"
    /\ result[1]
    /\ call.new_id = PidB /\ call.new_name = NameMixed
    /\ call.product_uuid \in DOMAIN products
    /\ Cardinality(MovementsOf(transactions, call.product_uuid)) >= 2
    /\ \A t \in MovementsOf(transactions, call.product_uuid) :
          transactions[t].product_id = PidB /\ transactions[t].product_name = <<"v">>
    /\ \E t \in DOMAIN transactions :
          /\ transactions[t].product_uuid /= call.product_uuid
          /\ transactions[t].product_id /= PidB
          /\ transactions[t].product_name = NameLower

\* C14: a product in the catalog stays there, with every movement it owns,
\* across every step that is not a delete_product of that product; a restart
\* of the application (initialize_database) removes nothing.
C14_ProductsPersist ==
    [][\A u \in DOMAIN products :
          (call'.op = "delete_product" /\ call'.product_uuid = u)
          \/ (/\ u \in DOMAIN products'
              /\ MovementsOf(transactions, u) \subseteq MovementsOf(transactions', u))]_vars

\* The products that own a movement with f > 0, and the sum of f over them
OwnersOf(f) == {u \in DOMAIN products : \E t \in MovementsOf(transactions, u) : f[t] > 0}

TotalOf(f, u) == SumOf(f, {t \in MovementsOf(transactions, u) : f[t] > 0})

\* The shape of a summary: one row per owner, carrying the owner's id and
\* name and the owner's total, in descending order of total
SummaryShape(rows, f) ==
    /\ Len(rows) = Cardinality(OwnersOf(f))
    /\ \A u \in OwnersOf(f) :
          \E i \in 1..Len(rows) :
              /\ rows[i].id = products[u].id
              /\ rows[i].name = products[u].name
              /\ rows[i].total = TotalOf(f, u)
    /\ \A i \in 1..Len(rows), j \in 1..Len(rows) : i < j => rows[i].total >= rows[j].total

\* C15: the stock-added summary has exactly one row per product that owns a
\* movement with added > 0, with the sum of added over those movements as its
\* total, no row for other products, rows in descending order of total; the
\* sales summary has the same shape for sold > 0.
C15_SummariesPerProduct ==
    /\ call.op = "get_stock_summary"
          => SummaryShape(result, [t \in DOMAIN transactions |-> transactions[t].quantity_added])
    /\ call.op = "get_sales_summary"
          => SummaryShape(result, [t \in DOMAIN transactions |-> transactions[t].quantity_sold])

\* C16: every product's stock is a non-negative integer, in what the
\* connection sees and in what is committed, whatever the interleaving of the
\* callers' update_stock and update_product_details statements.
C16_StockNonNegative ==
    /\ \A u \in DOMAIN products : products[u].stock \in Nat
    /\ \A u \in DOMAIN committed_products : committed_products[u].stock \in Nat

\* C16 witness: two callers sold 1 from the same product after both read its
\* stock as 1, both calls succeeded, and the committed stock is 0.
C16_Witness ==
    /\ pc["s1"] = "idle" /\ pc["s2"] = "idle"
    /\ loc["s1"].op = "update_stock" /\ loc["s2"].op = "update_stock"
    /\ loc["s1"].product_uuid = loc["s2"].product_uuid
    /\ loc["s1"].sold = 1 /\ loc["s2"].sold = 1
    /\ loc["s1"].current_stock = 1 /\ loc["s2"].current_stock = 1
    /\ loc["s1"].ret[1] /\ loc["s2"].ret[1]
    /\ loc["s1"].product_uuid \in DOMAIN committed_products
    /\ committed_products[loc["s1"].product_uuid].stock = 0
    /\ Cardinality({t \in MovementsOf(committed_transactions, loc["s1"].product_uuid) :
                       committed_transactions[t].quantity_sold = 1}) = 2

\* C17: no stored product name and no movement's name snapshot contains an
\* uppercase character, whatever the case of the names passed to add_product,
\* update_product_details and the CSV upload.
C17_NamesLowercase ==
    /\ \A u \in DOMAIN products : ~HasUpper(products[u].name)
    /\ \A t \in DOMAIN transactions : ~HasUpper(transactions[t].product_name)

\* C18: a successful update_stock call with added > 0 and sold > 0 leaves the
\* product's stock at its stock before the call plus added minus sold.
C18_NetEffectAppliedOnce ==
    [][(/\ call'.op = "update_stock"
        /\ result'[1]
        /\ call'.added > 0 /\ call'.sold > 0)
       => products'[call'.product_uuid].stock
             = products[call'.product_uuid].stock + call'.added - call'.sold]_vars

\* C19: update_stock checks sold against the stock before the call's own
\* added quantity: a call with sold greater than the current stock returns the
\* not-enough-stock failure and changes nothing even when the stock plus added
\* minus sold would not be negative (stock 0, added 5, sold 3 is rejected).
C19_CheckIgnoresAdded ==
    [][(/\ call'.op = "update_stock"
        /\ call'.product_uuid \in DOMAIN products
        /\ call'.added > 0
        /\ call'.sold > products[call'.product_uuid].stock
        /\ products[call'.product_uuid].stock + call'.added - call'.sold >= 0)
       => (/\ result' = <<FALSE, MsgNotEnoughStock>>
           /\ StockAfter(0, 5, 3) = <<FALSE, MsgNotEnoughStock>>
           /\ products' = products
           /\ transactions' = transactions
           /\ committed_products' = committed_products
           /\ committed_transactions' = committed_transactions)]_vars

\* C19 witness: a call that added as much as it sold, on a product whose stock
\* was below sold, was rejected; the product owns movements from earlier calls.
C19_Witness ==
    /\ call.op = "update_stock"
    /\ call.product_uuid \in DOMAIN products
    /\ call.added > 0
    /\ call.sold > call.stock
    /\ call.stock + call.added - call.sold >= 0
    /\ call.stock = products[call.product_uuid].stock
    /\ result = <<FALSE, MsgNotEnoughStock>>
    /\ MovementsOf(transactions, call.product_uuid) /= {}

\* The statements of update_product_details a caller may be about to run
UdStatements == {"ud_set_id", "ud_set_name", "ud_update", "ud_commit"}

\* C20: an update_product_details call starts from the committed store,
\* commits nothing before its own commit, and when a statement of it fails
\* (store failure), also after the movements' snapshots were rewritten, the
\* products and the movements are again the committed ones: exactly as they
\* were before the call.
C20_RenameAllOrNothing ==
    [][\A c \in Callers :
          /\ (pc[c] = "idle" /\ pc'[c] \in UdStatements)
                => /\ products = committed_products
                   /\ transactions = committed_transactions
          /\ (pc[c] \in UdStatements /\ pc'[c] \in UdStatements)
                => /\ committed_products' = committed_products
                   /\ committed_transactions' = committed_transactions
          /\ (pc[c] \in UdStatements /\ pc'[c] = "idle" /\ loc'[c].ret = <<FALSE, MsgStoreFailure>>)
                => /\ products' = committed_products
                   /\ transactions' = committed_transactions
                   /\ committed_products' = committed_products
                   /\ committed_transactions' = committed_transactions]_vars

\* C20 witness: a rename to a new id and a new name failed at the UPDATE of the
\* product row, after both snapshot rewrites; the product still has its old id
\* and name and so have its two movements.
C20_Witness ==
    /\ pc[Editor] = "idle"
    /\ loc[Editor].op = "update_product_details"
    /\ loc[Editor].ret = <<FALSE, MsgStoreFailure>>
    /\ loc[Editor].raised_at = "ud_update"
    /\ loc[Editor].new_id = PidB /\ loc[Editor].new_name = NameMixed
    /\ loc[Editor].product_uuid \in DOMAIN products
    /\ products[loc[Editor].product_uuid].id /= PidB
    /\ products[loc[Editor].product_uuid].name = NameLower
    /\ Cardinality(MovementsOf(transactions, loc[Editor].product_uuid)) >= 2
    /\ \A t \in MovementsOf(transactions, loc[Editor].product_uuid) :
          /\ transactions[t].product_id = products[loc[Editor].product_uuid].id
          /\ transactions[t].product_name = NameLower
    /\ products = committed_products
    /\ transactions = committed_transactions

(* ---------------------- the stock override (C21) ---------------------- *)

\* The edit form with its stock field: products are created, receive and
\* sell stock through the stock forms, and are edited with or without a new
\* id and with or without a stock value (0 is a value: "is not None").
NextOverride ==
    \/ \E pid \in {PidA, PidA1} : Cardinality(DOMAIN products) < 2 /\ AddProduct(pid, NameLower, <<"c">>, FALSE)
    \/ \E u \in DOMAIN products, d \in Dates, q \in {<<1, 0>>, <<0, 1>>} :
          Cardinality(DOMAIN transactions) < 3 /\ UpdateStock(u, d, q[1], q[2], FALSE)
    \/ \E u \in DOMAIN products, new_id \in NewIds, new_stock \in {NoneStock} \cup StockOverrides :
          UpdateProductDetails(u, new_id, <<>>, <<>>, new_stock, FALSE)

SpecOverride == Init /\ [][NextOverride]_vars

\* What a movement records of the stock: its owner, date and quantities
MovementQuantities(row) == <<row.product_uuid, row.date, row.quantity_added, row.quantity_sold, row.remarks>>

\* C21: a successful update_product_details that supplies new_stock = v sets
\* the product's stock to exactly v, leaves every other product's row alone,
\* and inserts no movement, deletes none and changes no movement's owner,
\* date, quantities or remarks; when it supplies no new id and no new name the
\* movements table is unchanged altogether.
C21_OverrideSetsStockOnly ==
    [][(/\ call'.op = "update_product_details"
        /\ result'[1]
        /\ call'.product_uuid \in DOMAIN products
        /\ call'.new_stock /= NoneStock)
       => LET u == call'.product_uuid
          IN  /\ products'[u].stock = call'.new_stock
              /\ \A x \in DOMAIN products \ {u} : products'[x] = products[x]
              /\ DOMAIN transactions' = DOMAIN transactions
              /\ \A t \in DOMAIN transactions :
                    MovementQuantities(transactions'[t]) = MovementQuantities(transactions[t])
              /\ (call'.new_id = <<>> /\ call'.new_name = <<>>) => transactions' = transactions]_vars

\* C21 witness: a product that received one unit (one movement, net 1) was
\* given the stock 0 through the edit form with no other field: its stock is
\* 0, its only movement is still there, and the stock differs from the net of
\* its movements.
C21_Witness ==
    /\ call.op = "update_product_details"
    /\ result[1]
    /\ call.new_stock = 0 /\ call.new_id = <<>>
    /\ call.product_uuid \in DOMAIN products
    /\ products[call.product_uuid].stock = 0
    /\ Cardinality(MovementsOf(transactions, call.product_uuid)) = 1
    /\ NetOfMovements(transactions, call.product_uuid) = 1

(* ------------------- the allocator's probe loop (C22) ------------------ *)

\* One caller uploads CSV files, probe by probe, into catalogs that hold any
\* of a, a(1), a(2) and b.  The loop of generate_unique_product_id runs in
\* the caller's own script run, which goes on executing until it returns:
\* weak fairness of the probe step.
NextProbe ==
    \/ \E pid \in {PidA, PidA1, PidA2, PidB} :
          Quiet /\ ~IdExists(products, pid) /\ AddProduct(pid, NameLower, <<"c">>, FALSE)
    \/ \E df \in ConcurrentUploads : ImStart(Editor, df)
    \/ GpProbe(Editor)
    \/ ImInsert(Editor)
    \/ ImCommit(Editor)

SpecProbe == Init /\ [][NextProbe]_vars /\ WF_vars(GpProbe(Editor))

\* The identifiers of the catalog that are among p, p(1), p(2), ...: the
\* first free candidate has an index of at most the number of products
HeldCandidates(prods, p) ==
    {Candidate(p, k) : k \in 0..Cardinality(DOMAIN prods)} \cap {prods[u].id : u \in DOMAIN prods}

\* C22: the probe loop of generate_unique_product_id terminates.  While it
\* runs, the candidate is p or p(counter-1) and the counter-1 probes made so
\* far number at most the held identifiers among p, p(1), p(2), ...; the
\* probe that ends it is probe number counter, at most held + 1, and finds the
\* returned identifier held by no product; and every started loop ends.
C22_ProbeLoopTerminates ==
    /\ [](pc[Editor] = "gp_probe"
          => /\ loc[Editor].pid = Candidate(loc[Editor].original_pid, loc[Editor].counter - 1)
             /\ loc[Editor].counter - 1 <= Cardinality(HeldCandidates(products, loc[Editor].original_pid)))
    /\ [][(pc[Editor] = "gp_probe" /\ pc'[Editor] = "im_insert")
          => /\ loc'[Editor].pid = loc[Editor].pid
             /\ ~IdExists(products, loc'[Editor].pid)
             /\ loc[Editor].counter <= Cardinality(HeldCandidates(products, loc[Editor].original_pid)) + 1]_vars
    /\ (pc[Editor] = "gp_probe") ~> (pc[Editor] = "im_insert")

\* C22 witness: the catalog holds a and a(1), an uploaded row proposed a, and
\* the loop has returned a(2) after its third probe (two held identifiers + 1).
C22_Witness ==
    /\ pc[Editor] = "im_insert"
    /\ loc[Editor].original_pid = PidA
    /\ loc[Editor].pid = PidA2
    /\ loc[Editor].counter = 3
    /\ HeldCandidates(products, PidA) = {PidA, PidA1}
    /\ ~IdExists(products, PidA2)

(* --------------------- the movement snapshots (C23) -------------------- *)

\* Create, apply, update and delete calls made one at a time: products are
\* created, receive and sell stock and are deleted; one caller edits them,
\* statement by statement, with store failures that roll the edit back.
NextSnapshot ==
    \/ Quiet /\ Cardinality(DOMAIN products) < 2 /\ AddProduct(PidA, NameLower, <<"c">>, FALSE)
    \/ \E u \in DOMAIN products, d \in Dates, q \in {<<1, 0>>, <<0, 1>>} :
          Quiet /\ UpdateStock(u, d, q[1], q[2], FALSE)
    \/ \E u \in DOMAIN products : Quiet /\ DeleteProduct(u, FALSE)
    \/ \E u \in DOMAIN products, new_id \in NewIds, new_name \in {<<>>, NameMixed} :
          UdBegin(Editor, u, new_id, new_name, <<>>, NoneStock)
    \/ UdSetId(Editor)
    \/ UdSetName(Editor)
    \/ UdUpdate(Editor)
    \/ UdCommit(Editor)
    \/ StoreFailure(Editor)

SpecSnapshot == Init /\ [][NextSnapshot]_vars

\* C23: in every committed state, each movement has an owner and its
\* product_id and product_name equal the owner's current id and name.
C23_SnapshotsMatchOwner ==
    \A t \in DOMAIN committed_transactions :
        LET u == committed_transactions[t].product_uuid
        IN  /\ u \in DOMAIN committed_products
            /\ committed_transactions[t].product_id = committed_products[u].id
            /\ committed_transactions[t].product_name = committed_products[u].name

\* C23 witness: a product that was given the id b and the name v has
\* received stock again; it owns two movements, one recorded before the edit
\* and one after, and both carry b and v, while another product had been
\* deleted with its movements.
C23_Witness ==
    /\ Quiet
    /\ call.op = "update_stock" /\ result[1]
    /\ call.product_uuid \in DOMAIN committed_products
    /\ committed_products[call.product_uuid].id = PidB
    /\ committed_products[call.product_uuid].name = <<"v">>
    /\ Cardinality(MovementsOf(committed_transactions, call.product_uuid)) = 2
    /\ \A t \in MovementsOf(committed_transactions, call.product_uuid) :
          committed_transactions[t].product_id = PidB /\ committed_transactions[t].product_name = <<"v">>
    /\ uuid_count > Cardinality(DOMAIN committed_products) + Cardinality(DOMAIN committed_transactions)

(* ------------------ app_1.py: the quiz session (C24) ------------------ *)

\* Questions in the loaded frame (load_csv returns no frame with 0 rows,
\* lines 74-76) and script runs that show one question
MaxQuestions == 3
MaxVisits == 3

\* The option labels a question offers, and the radio with nothing selected
Options == {"A", "B"}
None == "None"

\* init_session, lines 90-100, on a frame of n questions
init_session(n) ==
    [started |-> TRUE, finished |-> FALSE, exam_submitted |-> FALSE, n |-> n, q_index |-> 0,
     answers |-> [x \in {} |-> None], flagged |-> {}, visit_count |-> [i \in 0..(n - 1) |-> 0]]

\* What the radio of question idx returns in a run without a click on it:
\* its index is the stored answer (lines 186-187), None when there is none
CurrentAnswer(s, idx) == IF idx \in DOMAIN s.answers THEN s.answers[idx] ELSE None

\* main line 415, show_question(df.iloc[idx], idx): line 157 counts the
\* visit and line 197 stores what the radio returned.  df.iloc[idx] raises
\* IndexError for an idx outside the frame and the run ends there.
show_question(s, idx, selected) ==
    IF idx \notin 0..(s.n - 1) THEN s
    ELSE [s EXCEPT !.visit_count[idx] = @ + 1,
                   !.answers = [x \in DOMAIN s.answers \cup {idx} |->
                                   IF x = idx THEN selected ELSE s.answers[x]]]

\* The script run that st.rerun() starts: main from line 398 on
Rerun(s) ==
    IF s.finished THEN s ELSE show_question(s, s.q_index, CurrentAnswer(s, s.q_index))

\* The buttons show_question_palette renders: q_idx = i + j below len(df),
\* lines 210-215
PaletteButtons(n) == {q_idx \in 0..(5 * ((n + 4) \div 5) - 1) : ~(q_idx >= n)}

NotLast_always(idx, n) == TRUE

\* "if idx < len(df) - 1", lines 430 and 435
NotLast(idx, n) == idx < n - 1

\* main lines 398-404: the exam is in progress
InProgress == session.started /\ ~session.finished

\* The run may show question idx once more
CanVisit(s, idx) == idx \in DOMAIN s.visit_count => s.visit_count[idx] < MaxVisits

\* A widget event of the quiz: the session it leaves and the event
QuizEvent(s, ev) ==
    /\ session' = s
    /\ call' = ev
    /\ UNCHANGED <<products, transactions, committed_products, committed_transactions, uuid_count, result, pc, loc>>

\* "Start Exam", lines 389-392: init_session, then the rerun shows question 1
StartExam(n) ==
    /\ ~session.started
    /\ QuizEvent(Rerun(init_session(n)), [op |-> "Start Exam", q_index |-> 0])

\* A palette button, lines 228-230
PaletteNav(q_idx) ==
    /\ InProgress
    /\ q_idx \in PaletteButtons(session.n)
    /\ CanVisit(session, q_idx)
    /\ QuizEvent(Rerun([session EXCEPT !.q_index = q_idx]), [op |-> "palette", q_index |-> session.q_index])

\* A click on an option of the radio: lines 189-197, no rerun
SelectOption(selected) ==
    /\ InProgress
    /\ CanVisit(session, session.q_index)
    /\ QuizEvent(show_question(session, session.q_index, selected),
                 [op |-> "radio", q_index |-> session.q_index])

\* The session when the run reaches the navigation buttons, line 420
AtButtons == show_question(session, session.q_index, CurrentAnswer(session, session.q_index))

\* "Previous", lines 422-426: rendered for idx > 0
Previous ==
    /\ InProgress
    /\ session.q_index > 0
    /\ CanVisit(session, session.q_index) /\ CanVisit(session, session.q_index - 1)
    /\ QuizEvent(Rerun([AtButtons EXCEPT !.q_index = @ - 1]), [op |-> "Previous", q_index |-> session.q_index])

\* "Save & Next", lines 428-432: always rendered, moves only before the last
SaveNext ==
    /\ InProgress
    /\ CanVisit(session, session.q_index) /\ CanVisit(session, session.q_index + 1)
    /\ QuizEvent(IF NotLast(session.q_index, session.n)
                 THEN Rerun([AtButtons EXCEPT !.q_index = @ + 1])
                 ELSE AtButtons,
                 [op |-> "Save & Next", q_index |-> session.q_index])

\* "Skip", lines 434-438: rendered before the last question
Skip ==
    /\ InProgress
    /\ NotLast(session.q_index, session.n)
    /\ CanVisit(session, session.q_index) /\ CanVisit(session, session.q_index + 1)
    /\ QuizEvent(Rerun([AtButtons EXCEPT !.q_index = @ + 1]), [op |-> "Skip", q_index |-> session.q_index])

\* show_timer, lines 111-117: a run finds no time left and ends the exam
TimeUp ==
    /\ InProgress
    /\ QuizEvent([session EXCEPT !.finished = TRUE, !.exam_submitted = TRUE],
                 [op |-> "time up", q_index |-> session.q_index])

\* "Take Another Test", lines 344-347: every key of the session is deleted
TakeAnotherTest ==
    /\ session.started /\ session.finished
    /\ QuizEvent(NoSession, [op |-> "Take Another Test", q_index |-> session.q_index])

\* The quiz: exams of 1..MaxQuestions questions are started, navigated,
\* answered, timed out and started again.
NextQuiz ==
    \/ \E n \in 1..MaxQuestions : StartExam(n)
    \/ \E q_idx \in 0..MaxQuestions : PaletteNav(q_idx)
    \/ \E selected \in Options : SelectOption(selected)
    \/ Previous
    \/ SaveNext
    \/ Skip
    \/ TimeUp
    \/ TakeAnotherTest

SpecQuiz == Init /\ [][NextQuiz]_vars

\* C24: in a started quiz session of n >= 1 questions q_index is always in
\* 0..n-1; Previous acts only above index 0 and moves one back, Skip acts only
\* below index n-1 and moves one forward, and Save & Next at index n-1 leaves
\* q_index where it is.
C24_QIndexInRange ==
    /\ [](session.started => session.n >= 1 /\ session.q_index \in 0..(session.n - 1))
    /\ [][/\ call'.op = "Previous" /\ session.started
             => session.q_index > 0 /\ session'.q_index = session.q_index - 1
          /\ call'.op = "Skip" /\ session.started
             => session.q_index < session.n - 1 /\ session'.q_index = session.q_index + 1
          /\ call'.op = "Save & Next" /\ session.started
             => session'.q_index = (IF session.q_index = session.n - 1
                                    THEN session.q_index ELSE session.q_index + 1)
          /\ call'.op = "palette" /\ session.started
             => session'.q_index \in 0..(session.n - 1)]_vars

\* C24 witness: in an exam of MaxQuestions questions, Save & Next was
\* clicked on the last question and q_index is still the last index.
C24_Witness ==
    /\ session.started /\ ~session.finished
    /\ session.n = MaxQuestions
    /\ call.op = "Save & Next"
    /\ call.q_index = session.n - 1
    /\ session.q_index = session.n - 1

====
